---------------------------- MODULE Spec2Model ----------------------------
(* A model of the social-media downloader (src/app.py): the URL classifier *)
(* (validate_url, get_platform), the format menu built by /info, the       *)
(* /download job handler, /get_file and the history table.                 *)
EXTENDS Integers, Sequences, FiniteSets, TLC

(***************************************************************************)
(* Strings.  A Python str is a TLA+ string; Ch(s, i) is s[i-1].            *)
(***************************************************************************)
Ch(s, i) == SubSeq(s, i, i)

Chars(s) == {Ch(s, i) : i \in 1..Len(s)}

LowerAlpha == "abcdefghijklmnopqrstuvwxyz"

UpperAlpha == "ABCDEFGHIJKLMNOPQRSTUVWXYZ"

Digits == "0123456789"

\* s[i-1:].startswith(p)
StartsWithAt(s, i, p) ==
    /\ i + Len(p) - 1 <= Len(s)
    /\ SubSeq(s, i, i + Len(p) - 1) = p

\* The first index in from..Len(s) whose character is in set cs, or 0.
RECURSIVE FindAny(_, _, _)
FindAny(s, cs, from) ==
    IF from > Len(s) THEN 0
    ELSE IF Ch(s, from) \in cs THEN from
    ELSE FindAny(s, cs, from + 1)

\* str.lower() on one character (ASCII).
LowerCh(c) ==
    LET i == FindAny(UpperAlpha, {c}, 1)
    IN  IF i = 0 THEN c ELSE Ch(LowerAlpha, i)

\* str.lower()
RECURSIVE Lower(_)
Lower(s) == IF s = "" THEN "" ELSE LowerCh(Ch(s, 1)) \o Lower(Tail(s))

(***************************************************************************)
(* urllib.parse.urlparse(url).netloc: an optional scheme (a letter, then   *)
(* letters, digits, '+', '-', '.', up to the first ':') is split off; if   *)
(* the rest starts with "//", the netloc runs to the first '/', '?' or '#'.*)
(***************************************************************************)
SchemeChars == Chars(LowerAlpha) \cup Chars(UpperAlpha) \cup Chars(Digits) \cup {"+", "-", "."}

AfterScheme(url) ==
    LET i == FindAny(url, {":"}, 1)
    IN  IF /\ i > 1
           /\ Ch(url, 1) \in Chars(LowerAlpha) \cup Chars(UpperAlpha)
           /\ \A k \in 1..(i - 1) : Ch(url, k) \in SchemeChars
        THEN SubSeq(url, i + 1, Len(url))
        ELSE url

Netloc(url) ==
    LET rest == AfterScheme(url)
    IN  IF StartsWithAt(rest, 1, "//")
        THEN LET d == FindAny(rest, {"/", "?", "#"}, 3)
             IN  IF d = 0 THEN SubSeq(rest, 3, Len(rest)) ELSE SubSeq(rest, 3, d - 1)
        ELSE ""

(***************************************************************************)
(* Regular expressions, as re.search uses them.  A pattern is a tree;      *)
(* Ends(r, s, i) is the set of positions j such that r matches s[i..j-1].  *)
(***************************************************************************)
Lit(str) == [t |-> "lit", s |-> str]

In(cs) == [t |-> "in", cs |-> cs]

NotIn(cs) == [t |-> "notin", cs |-> cs]

Cat(rs) == [t |-> "cat", rs |-> rs]

Alt(rs) == [t |-> "alt", rs |-> rs]

Plus(r) == [t |-> "plus", r |-> r]

Star(r) == [t |-> "star", r |-> r]

Opt(r) == [t |-> "opt", r |-> r]

\* '.' matches any character except a newline
Dot == NotIn({"\n"})

RECURSIVE Ends(_, _, _)
RECURSIVE CatEnds(_, _, _, _)
RECURSIVE StarEnds(_, _, _)

\* the positions reachable from the set of positions S by the patterns rs[k..]
CatEnds(rs, k, s, S) ==
    IF k > Len(rs) \/ S = {} THEN S
    ELSE CatEnds(rs, k + 1, s, UNION {Ends(rs[k], s, j) : j \in S})

\* the positions reachable from S by zero or more matches of r
StarEnds(r, s, S) ==
    LET N == S \cup UNION {Ends(r, s, j) : j \in S}
    IN  IF N = S THEN S ELSE StarEnds(r, s, N)

Ends(r, s, i) ==
    CASE r.t = "lit"   -> IF StartsWithAt(s, i, r.s) THEN {i + Len(r.s)} ELSE {}
      [] r.t = "in"    -> IF i <= Len(s) /\ Ch(s, i) \in r.cs THEN {i + 1} ELSE {}
      [] r.t = "notin" -> IF i <= Len(s) /\ Ch(s, i) \notin r.cs THEN {i + 1} ELSE {}
      [] r.t = "cat"   -> CatEnds(r.rs, 1, s, {i})
      [] r.t = "alt"   -> UNION {Ends(r.rs[k], s, i) : k \in 1..Len(r.rs)}
      [] r.t = "plus"  -> StarEnds(r.r, s, Ends(r.r, s, i))
      [] r.t = "star"  -> StarEnds(r.r, s, {i})
      [] r.t = "opt"   -> {i} \cup Ends(r.r, s, i)

\* re.search(pattern, s) is not None
re_search(r, s) == \E i \in 1..(Len(s) + 1) : Ends(r, s, i) # {}

(***************************************************************************)
(* URL classifier: validate_url and get_platform.                          *)
(***************************************************************************)
\* [^?&"'>]+
YtId == Plus(NotIn({"?", "&", "\"", "'", ">"}))

\* [^/?]+
Seg == Plus(NotIn({"/", "?"}))

\* [^\/]+
NoSlash == Plus(NotIn({"/"}))

\* \d+
Num == Plus(In(Chars(Digits)))

\* the `patterns` dict of validate_url, in its order
patterns ==
    << [platform |-> "youtube",
        domains  |-> <<"www.youtube.com", "youtube.com", "youtu.be", "m.youtube.com">>,
        patterns |-> << Cat(<< Alt(<< Lit("youtu.be/"),
                                      Cat(<< Lit("youtube.com/"),
                                             Alt(<< Cat(<< Lit("watch?"),
                                                           Opt(Cat(<<Star(Dot), Lit("&")>>)),
                                                           Lit("v=") >>),
                                                    Cat(<< Alt(<<Lit("embed"), Lit("v")>>),
                                                           Lit("/") >>) >>) >>) >>),
                               YtId >>),
                        Cat(<<Lit("youtube.com/shorts/"), YtId>>) >>],
       [platform |-> "instagram",
        domains  |-> <<"www.instagram.com", "instagram.com">>,
        patterns |-> << Cat(<<Lit("instagram.com/"), Alt(<<Lit("p"), Lit("reel")>>),
                              Lit("/"), Seg>>),
                        Cat(<<Lit("instagram.com/stories/"), Seg, Lit("/"), Seg>>) >>],
       [platform |-> "facebook",
        domains  |-> <<"www.facebook.com", "facebook.com", "fb.com", "fb.watch",
                       "m.facebook.com">>,
        patterns |-> << Cat(<<Lit("facebook.com/"), NoSlash, Lit("/videos/"), Seg>>),
                        Cat(<<Lit("facebook.com/watch"), Opt(Lit("/")), Lit("?v="),
                              Plus(NotIn({"&"}))>>),
                        Cat(<<Lit("fb.watch/"), Seg>>) >>],
       [platform |-> "twitter",
        domains  |-> <<"www.twitter.com", "twitter.com", "x.com", "www.x.com">>,
        patterns |-> << Cat(<<Lit("twitter.com/"), NoSlash, Lit("/status/"), Num>>),
                        Cat(<<Lit("x.com/"), NoSlash, Lit("/status/"), Num>>) >>],
       [platform |-> "tiktok",
        domains  |-> <<"www.tiktok.com", "tiktok.com", "vm.tiktok.com">>,
        patterns |-> << Cat(<<Lit("tiktok.com/@"), NoSlash, Lit("/video/"), Num>>),
                        Cat(<<Lit("tiktok.com/t/"), Seg>>) >>],
       [platform |-> "reddit",
        domains  |-> <<"www.reddit.com", "reddit.com", "v.redd.it">>,
        patterns |-> << Cat(<<Lit("reddit.com/r/"), NoSlash, Lit("/comments/"), NoSlash>>),
                        Cat(<<Lit("v.redd.it/"), Seg>>) >>] >>

\* any(domain == hostname for domain in domains)
AnyDomain(domains, hostname) == \E k \in 1..Len(domains) : domains[k] = hostname

\* the inner loop of validate_url: the first pattern of ps[k..] that matches
RECURSIVE AnyPatternFrom(_, _, _)
AnyPatternFrom(ps, k, url) ==
    IF k > Len(ps) THEN FALSE
    ELSE IF re_search(ps[k], url) THEN TRUE
    ELSE AnyPatternFrom(ps, k + 1, url)

\* the outer loop of validate_url over patterns.items(), from the k-th platform
RECURSIVE ValidateFrom(_, _, _)
ValidateFrom(k, hostname, url) ==
    IF k > Len(patterns) THEN FALSE
    ELSE IF /\ AnyDomain(patterns[k].domains, hostname)
            /\ AnyPatternFrom(patterns[k].patterns, 1, url)
         THEN TRUE
         ELSE ValidateFrom(k + 1, hostname, url)

\* validate_url with the hostname test and the pattern test not tied to the
\* same platform
validate_url_AnyPlatform(url) ==
    /\ \E k \in 1..Len(patterns) : AnyDomain(patterns[k].domains, Lower(Netloc(url)))
    /\ \E k \in 1..Len(patterns) : AnyPatternFrom(patterns[k].patterns, 1, url)

validate_url(url) == ValidateFrom(1, Lower(Netloc(url)), url)

get_platform(url) ==
    LET hostname == Lower(Netloc(url))
    IN  IF hostname \in {"www.youtube.com", "youtube.com", "youtu.be", "m.youtube.com"}
          THEN "youtube"
        ELSE IF hostname \in {"www.instagram.com", "instagram.com"}
          THEN "instagram"
        ELSE IF hostname \in {"www.facebook.com", "facebook.com", "fb.com", "fb.watch",
                              "m.facebook.com"}
          THEN "facebook"
        ELSE IF hostname \in {"www.twitter.com", "twitter.com", "x.com", "www.x.com"}
          THEN "twitter"
        ELSE IF hostname \in {"www.tiktok.com", "tiktok.com", "vm.tiktok.com"}
          THEN "tiktok"
        ELSE IF hostname \in {"www.reddit.com", "reddit.com", "v.redd.it"}
          THEN "reddit"
        ELSE "unknown"

(***************************************************************************)
(* State.                                                                  *)
(*   cls          a call of validate_url / get_platform: its argument and  *)
(*                what each returned ("?" before the call)                 *)
(*   res          a call of the /info menu construction                    *)
(*   fil          a call of the file-name construction of get_file         *)
(*   downloads    the module-level dict `downloads`: job id -> entry       *)
(*   files        the paths present in temp_dir                            *)
(*   history      the rows of the Download table                           *)
(*   next_row_id  the table's id sequence                                  *)
(*   pc, loc      each request-handling thread's position and locals       *)
(*   resp         the response a thread is about to return                 *)
(***************************************************************************)
VARIABLES cls, res, fil, downloads, files, history, next_row_id, pc, loc, resp

vars == <<cls, res, fil, downloads, files, history, next_row_id, pc, loc, resp>>

jobvars == <<downloads, files, history, next_row_id, pc, loc, resp>>

None == "None"

(***************************************************************************)
(* The classifier on its own: one URL, validated and classified.           *)
(***************************************************************************)
UrlSchemes == {"https://", "http://", "", "HTTPS://"}

UrlHosts ==
    {"www.youtube.com", "youtu.be", "YouTube.com", "instagram.com", "fb.watch", "fb.com",
     "x.com", "vm.tiktok.com", "v.redd.it", "www.reddit.com", "example.com",
     "music.youtube.com", "youtube.com:443", "WWW.FACEBOOK.COM", "twitter.com",
     "netflix.com"}

UrlTails ==
    {"", "/watch?v=abc", "/watch?t=1&v=abc", "/watch?list=abc", "/shorts/abc", "/embed/a",
     "/p/abc", "/reel/abc/", "/stories/u/1", "/user/videos/12", "/watch/?v=9",
     "/user/status/12", "/user/status/ab", "/@u/video/12", "/t/abc", "/r/a/comments/b",
     "/abc", "/?u=youtube.com/embed/x", "/?n=twitter.com/a/status/1",
     "?v=facebook.com/watch?v=1", "#instagram.com/p/x"}

Urls == {s \o h \o t : s \in UrlSchemes, h \in UrlHosts, t \in UrlTails}

ClsIdle == [url |-> "", valid |-> "?", platform |-> "?"]

CallValidate ==
    /\ cls.valid = "?"
    /\ cls' = [cls EXCEPT !.valid = IF validate_url(cls.url) THEN "yes" ELSE "no"]
    /\ UNCHANGED <<res, fil, jobvars>>

CallClassify ==
    /\ cls.platform = "?"
    /\ cls' = [cls EXCEPT !.platform = get_platform(cls.url)]
    /\ UNCHANGED <<res, fil, jobvars>>

(***************************************************************************)
(* /info: the format menu.  A provider format is a record with format_id,  *)
(* ext, width, height, format_note, vcodec, acodec; width and height are a *)
(* number (Px), None (NoneDim), or absent (MissingDim).                    *)
(***************************************************************************)
Px(n) == [k |-> "int", v |-> n]

NoneDim == [k |-> "none"]

MissingDim == [k |-> "missing"]

\* f"{x}" of format.get(key, 'unknown')
FmtDim(d) ==
    IF d.k = "missing" THEN "unknown" ELSE IF d.k = "none" THEN "None" ELSE ToString(d.v)

\* one element of get_video_info's 'formats' list
InfoFormat(f) ==
    [format_id   |-> f.format_id,
     ext         |-> f.ext,
     resolution  |-> FmtDim(f.width) \o "x" \o FmtDim(f.height),
     format_note |-> f.format_note,
     vcodec      |-> f.vcodec,
     acodec      |-> f.acodec]

\* [g(x) for x in seq]
MapSeq(seq, g(_)) == [k \in 1..Len(seq) |-> g(seq[k])]

\* get_video_info(url)['formats'] from the provider's info['formats']
InfoKeep(f) == f.ext \in {"mp4", "webm", "mkv", "m4a", "mp3"} /\ f.format_note # "storyboard"

video_info_formats(raw) == MapSeq(SelectSeq(raw, InfoKeep), InfoFormat)

\* str.split(sep) for a one-character sep
RECURSIVE Split(_, _)
Split(s, sep) ==
    LET i == FindAny(s, {sep}, 1)
    IN  IF i = 0 THEN <<s>>
        ELSE <<SubSeq(s, 1, i - 1)>> \o Split(SubSeq(s, i + 1, Len(s)), sep)

\* int(s) for a string of decimal digits
RECURSIVE DigitsValue(_, _)
DigitsValue(s, acc) ==
    IF s = "" THEN acc
    ELSE DigitsValue(Tail(s), 10 * acc + (FindAny(Digits, {Ch(s, 1)}, 1) - 1))

\* what ParseHeight gives where the code raises ValueError or IndexError
ParseError == -1

\* int(resolution.split('x')[1])
ParseHeight(resolution) ==
    LET parts == Split(resolution, "x")
    IN  IF Len(parts) < 2 THEN ParseError
        ELSE IF parts[2] = "" \/ \E k \in 1..Len(parts[2]) : Ch(parts[2], k) \notin Chars(Digits)
             THEN ParseError
        ELSE DigitsValue(parts[2], 0)

\* the None of a resolution_formats slot
NoFormat == [format_id |-> None]

target_resolutions == <<144, 240, 360, 480, 720, 1080, 1440, 2160>>

\* the filter that collects av_formats
AvKeep(f) ==
    /\ f.vcodec # "none" /\ f.acodec # "none"
    /\ f.resolution # "unknownxunknown"
    /\ f.ext \in {"mp4", "webm"}

av_formats(formats) == SelectSeq(formats, AvKeep)

\* PlaceFrom without the break: an occupied bucket passes the format on to the
\* next larger one.
RECURSIVE PlaceFrom_NoBreak(_, _, _, _)
PlaceFrom_NoBreak(rf, f, height, k) ==
    IF k > Len(target_resolutions) THEN rf
    ELSE IF height <= target_resolutions[k] /\ rf[target_resolutions[k]] = NoFormat
         THEN [rf EXCEPT ![target_resolutions[k]] = f]
         ELSE PlaceFrom_NoBreak(rf, f, height, k + 1)

\* the inner loop over target_resolutions from index k: the first res with
\* height <= res takes the format if it is still None, and the loop breaks.
RECURSIVE PlaceFrom(_, _, _, _)
PlaceFrom(rf, f, height, k) ==
    IF k > Len(target_resolutions) THEN rf
    ELSE IF height <= target_resolutions[k]
         THEN (IF rf[target_resolutions[k]] = NoFormat
               THEN [rf EXCEPT ![target_resolutions[k]] = f]
               ELSE rf)
         ELSE PlaceFrom(rf, f, height, k + 1)

\* one iteration of the loop over av_formats
Place(rf, f) ==
    LET height == ParseHeight(f.resolution)
    IN  IF height = ParseError THEN rf ELSE PlaceFrom(rf, f, height, 1)

RECURSIVE PlaceAllFrom(_, _, _)
PlaceAllFrom(rf, av, k) ==
    IF k > Len(av) THEN rf ELSE PlaceAllFrom(Place(rf, av[k]), av, k + 1)

\* resolution_formats after the loop
resolution_formats(av) ==
    PlaceAllFrom([r \in {target_resolutions[k] : k \in 1..Len(target_resolutions)} |-> NoFormat],
                 av, 1)

\* the labelled formats of the buckets from index k on, in sorted order
RECURSIVE LabelledFrom(_, _)
LabelledFrom(rf, k) ==
    IF k > Len(target_resolutions) THEN <<>>
    ELSE LET r == target_resolutions[k]
         IN  (IF rf[r] # NoFormat
              THEN <<[rf[r] EXCEPT !.format_note = ToString(r) \o "p"]>>
              ELSE <<>>) \o LabelledFrom(rf, k + 1)

BestQuality ==
    [format_id |-> "best[ext=mp4]/best", ext |-> "mp4", resolution |-> "Best quality",
     format_note |-> "Best quality", vcodec |-> "h264", acodec |-> "aac"]

AudioOnly ==
    [format_id |-> "bestaudio", ext |-> "mp3", resolution |-> "Audio only",
     format_note |-> "MP3 Audio", vcodec |-> "none", acodec |-> "mp3"]

\* menu with the fallback entry added whether or not a bucket is assigned
menu_AlwaysFallback(rf) == LabelledFrom(rf, 1) \o <<BestQuality>> \o <<AudioOnly>>

\* video_info['formats'] as /info returns it
menu(rf) ==
    LET formats == LabelledFrom(rf, 1)
    IN  (IF formats = <<>> THEN <<BestQuality>> ELSE formats) \o <<AudioOnly>>

(***************************************************************************)
(* The menu construction on its own: one provider format list.             *)
(***************************************************************************)
MaxFormats == 3

PF(id, ext, w, h, note, v, a) ==
    [format_id |-> id, ext |-> ext, width |-> w, height |-> h, format_note |-> note,
     vcodec |-> v, acodec |-> a]

FormatPool ==
    { PF("17", "mp4", Px(176), Px(100), "tiny", "avc1", "mp4a"),
      PF("18", "mp4", Px(214), Px(120), "tiny", "avc1", "mp4a"),
      PF("36", "mp4", Px(256), Px(144), "144p", "avc1", "mp4a"),
      PF("43", "webm", Px(640), Px(360), "medium", "vp8", "vorbis"),
      PF("22", "mp4", Px(1244), Px(700), "hd", "avc1", "mp4a"),
      PF("400", "mp4", Px(5000), Px(3000), "5k", "av01", "mp4a"),
      PF("137", "mp4", Px(1920), Px(1080), "1080p", "avc1", "none"),
      PF("140", "m4a", NoneDim, NoneDim, "medium", "none", "mp4a"),
      PF("99", "mp4", NoneDim, NoneDim, "", "avc1", "mp4a"),
      PF("5", "mp4", MissingDim, MissingDim, "", "avc1", "mp4a"),
      PF("45", "mkv", Px(1280), Px(720), "720p", "avc1", "mp4a"),
      PF("sb0", "mhtml", Px(48), Px(27), "storyboard", "none", "none") }

\* the lists of at most n pool formats with distinct format ids
RECURSIVE FormatLists(_)
FormatLists(n) ==
    IF n = 0 THEN {<<>>}
    ELSE LET shorter == FormatLists(n - 1)
         IN  shorter \cup
             UNION {{Append(l, f) : f \in {g \in FormatPool :
                                              \A i \in 1..Len(l) : l[i] # g}} :
                    l \in {x \in shorter : Len(x) = n - 1}}

ResIdle == [raw |-> <<>>, done |-> FALSE, av |-> <<>>, rf |-> <<>>, formats |-> <<>>]

\* the menu part of get_info: lines 274-339
get_info ==
    /\ ~res.done
    /\ LET formats == video_info_formats(res.raw)
           av == av_formats(formats)
           rf == resolution_formats(av)
       IN  res' = [res EXCEPT !.done = TRUE, !.av = av, !.rf = rf, !.formats = menu(rf)]
    /\ UNCHANGED <<cls, fil, jobvars>>

(***************************************************************************)
(* get_file's download name: '{platform}_{title}.{ext}' with the title     *)
(* cleaned by re.sub(r'[^\w\s-]', '', title).strip().replace(' ', '_').    *)
(***************************************************************************)
\* \w
WordChars == Chars(LowerAlpha) \cup Chars(UpperAlpha) \cup Chars(Digits) \cup {"_"}

\* \s, and what str.strip() strips
SpaceChars == {" ", "\t", "\n", "\r", "\f"}

\* re.sub of one character class by '': the characters of s in keep, in order
RECURSIVE KeepChars(_, _)
KeepChars(s, keep) ==
    IF s = "" THEN ""
    ELSE (IF Ch(s, 1) \in keep THEN Ch(s, 1) ELSE "") \o KeepChars(Tail(s), keep)

RECURSIVE LStrip(_)
LStrip(s) == IF s # "" /\ Ch(s, 1) \in SpaceChars THEN LStrip(Tail(s)) ELSE s

RECURSIVE RStrip(_)
RStrip(s) ==
    IF s # "" /\ Ch(s, Len(s)) \in SpaceChars THEN RStrip(SubSeq(s, 1, Len(s) - 1)) ELSE s

\* str.strip()
Strip(s) == RStrip(LStrip(s))

\* str.replace(old, new) for a one-character old
RECURSIVE Replace(_, _, _)
Replace(s, old, new) ==
    IF s = "" THEN ""
    ELSE (IF Ch(s, 1) = old THEN new ELSE Ch(s, 1)) \o Replace(Tail(s), old, new)

\* clean_title with every run of spaces replaced by one underscore
RECURSIVE SqueezeSpaces(_)
SqueezeSpaces(s) ==
    IF s = "" THEN ""
    ELSE IF Ch(s, 1) = " "
         THEN "_" \o SqueezeSpaces(LStrip(s))
         ELSE Ch(s, 1) \o SqueezeSpaces(Tail(s))

clean_title_Squeeze(title) ==
    SqueezeSpaces(Strip(KeepChars(title, WordChars \cup SpaceChars \cup {"-"})))

\* line 489
clean_title(title) ==
    Replace(Strip(KeepChars(title, WordChars \cup SpaceChars \cup {"-"})), " ", "_")

\* line 491
download_name(platform, title, ext) == platform \o "_" \o title \o "." \o ext

\* line 497
mimetype(ext) == (IF ext = "mp3" THEN "audio" ELSE "video") \o "/" \o ext

MaxTitleLen == 4

TitleAlphabet == {"a", "_", "-", " ", "\t", "!"}

RECURSIVE Strings(_)
Strings(n) ==
    IF n = 0 THEN {""}
    ELSE LET shorter == Strings(n - 1)
         IN  shorter \cup {s \o c : s \in {x \in shorter : Len(x) = n - 1},
                                    c \in TitleAlphabet}

Titles == Strings(MaxTitleLen) \cup {"Cat's Video: Part #1!"}

FilIdle ==
    [title |-> "", url |-> "", ext |-> "", done |-> FALSE, download_name |-> "",
     mimetype |-> ""]

\* lines 479-498 of get_file, for a completed job's url and ext and the title
\* the provider reports
serve_name ==
    /\ ~fil.done
    /\ LET platform == get_platform(fil.url)
           title == clean_title(fil.title)
       IN  fil' = [fil EXCEPT !.done = TRUE,
                              !.download_name = download_name(platform, title, fil.ext),
                              !.mimetype = mimetype(fil.ext)]
    /\ UNCHANGED <<cls, res, jobvars>>

(***************************************************************************)
(* /download and /get_file: the state of the job manager.                  *)
(***************************************************************************)
\* two request-handling threads: one handler, or a pair of concurrent ones
Workers == {"w1", "w2"}

\* how many job ids uuid4 can draw
MaxJobs == 2

JobIds == {"u" \o ToString(i) : i \in 1..MaxJobs}

temp_dir == "/tmp/dl"

(***************************************************************************)
(* The provider (yt_dlp) as the handlers use it: extract_info returns the  *)
(* metadata of a URL, download writes the file the options select.         *)
(***************************************************************************)
GoodUrl == "https://youtu.be/abc"

JF(id, ext, v, a, size) ==
    [format_id |-> id, ext |-> ext, vcodec |-> v, acodec |-> a, filesize |-> size]

\* info = ydl.extract_info(url, download=False)
extract_info(url) ==
         [id |-> "abc", title |-> "Cat's Video: Part #1!", thumbnail |-> "t1", duration |-> 61,
          formats |-> << JF("140", "m4a", "none", "mp4a", "s140"),
                         JF("18", "mp4", "avc1", "mp4a", "s18"),
                         JF("248", "webm", "vp9", "none", "s248") >>]

BestSelector == "best[ext=mp4]/best"

CompositeSuffix == "+bestaudio[ext=m4a]/best"

\* the last element of formats satisfying Test, NoFormat if there is none
LastWhere(formats, Test(_)) ==
    LET hits == SelectSeq(formats, Test)
    IN  IF hits = <<>> THEN NoFormat ELSE hits[Len(hits)]

HasAV(f) == f.vcodec # "none" /\ f.acodec # "none"

\* the extension of the file ydl.download writes for these options, "error"
\* if the selector selects nothing
written_ext(opts, formats) ==
    LET best == LastWhere(formats, HasAV)
        bestmp4 == LastWhere(formats, LAMBDA f : HasAV(f) /\ f.ext = "mp4")
        byid(id) == LastWhere(formats, LAMBDA f : f.format_id = id)
        n == Len(opts.format) - Len(CompositeSuffix)
    IN  IF opts.postprocessors = "FFmpegExtractAudio:mp3"
          THEN IF LastWhere(formats, LAMBDA f : f.acodec # "none") = NoFormat
               THEN "error" ELSE "mp3"
        ELSE IF opts.format = BestSelector
          THEN IF bestmp4 # NoFormat THEN bestmp4.ext
               ELSE IF best # NoFormat THEN best.ext ELSE "error"
        ELSE IF n > 0 /\ StartsWithAt(opts.format, n + 1, CompositeSuffix)
          THEN IF /\ byid(SubSeq(opts.format, 1, n)) # NoFormat
                  /\ LastWhere(formats, LAMBDA f : f.vcodec = "none" /\ f.ext = "m4a")
                       # NoFormat
               THEN opts.merge_output_format
               ELSE IF best # NoFormat THEN best.ext ELSE "error"
        ELSE IF byid(opts.format) # NoFormat THEN byid(opts.format).ext ELSE "error"

\* outtmpl % {'ext': ext}
outtmpl_path(outtmpl, ext) == SubSeq(outtmpl, 1, Len(outtmpl) - Len("%(ext)s")) \o ext

\* the (url, format) pairs clients submit
Requests ==
    { <<"", "18">>, <<GoodUrl, "">>, <<"https://youtu.be/", "18">>,
      <<"https://example.com/v", "bestaudio">>,
      <<GoodUrl, "bestaudio">>, <<GoodUrl, BestSelector>>, <<GoodUrl, "18">>,
      <<GoodUrl, "248">>, <<GoodUrl, "999">> }

RequestUrls == {r[1] : r \in Requests}

(***************************************************************************)
(* Handler threads.                                                        *)
(***************************************************************************)
NoLoc == [op |-> "none"]

NoResp == [code |-> 0]

JobInit ==
    /\ downloads = <<>>
    /\ files = {}
    /\ history = {}
    /\ next_row_id = 1
    /\ pc = [t \in Workers |-> "idle"]
    /\ loc = [t \in Workers |-> NoLoc]
    /\ resp = [t \in Workers |-> NoResp]

\* jsonify({'error': ...}), code / abort(code)
Respond(t, r) ==
    /\ pc' = [pc EXCEPT ![t] = "respond"]
    /\ resp' = [resp EXCEPT ![t] = r]

\* the ids no job entry holds
UnusedIds == {i \in 1..MaxJobs : "u" \o ToString(i) \notin DOMAIN downloads}

\* the ids uuid4 draws from if it could repeat an id
uuid4_Repeating == JobIds

\* str(uuid.uuid4()): an id no earlier call returned.  The ids are
\* interchangeable, so the first unused one stands for any of them.
uuid4 == {"u" \o ToString(i) : i \in {j \in UnusedIds : \A k \in UnusedIds : j <= k}}

\* validate_url and get_platform on the URLs clients submit, computed once
RequestValid == [u \in RequestUrls |-> validate_url(u)]

RequestPlatform == [u \in RequestUrls |-> get_platform(u)]

\* request_error without the validate_url test
request_error_NoValidate(url, format_id) ==
    IF url = "" \/ format_id = "" THEN "URL and format are required" ELSE ""

\* lines 350-355: the error /download rejects the request with, "" if none
request_error(url, format_id) ==
    IF url = "" \/ format_id = "" THEN "URL and format are required"
    ELSE IF ~RequestValid[url] THEN "Invalid URL"
    ELSE ""

\* /download, lines 347-359: the request is read and validated
download_validate(t, url, format_id) ==
    /\ pc[t] = "idle"
    /\ IF request_error(url, format_id) # ""
       THEN /\ Respond(t, [code |-> 400, error |-> request_error(url, format_id)])
            /\ loc' = [loc EXCEPT ![t] = [op |-> "download", url |-> url,
                                          format_id |-> format_id, download_id |-> ""]]
       ELSE /\ pc' = [pc EXCEPT ![t] = "extract"]
            /\ loc' = [loc EXCEPT ![t] = [op |-> "download", url |-> url,
                                          format_id |-> format_id, download_id |-> "",
                                          platform |-> RequestPlatform[url]]]
            /\ UNCHANGED resp
    /\ UNCHANGED <<cls, res, fil, downloads, files, history, next_row_id>>

\* the loop of lines 375-384: the selected format, its filesize and ext
SelectedFormat(formats, format_id) ==
    LET hits == SelectSeq(formats, LAMBDA f : f.format_id = format_id)
    IN  IF hits = <<>> THEN NoFormat ELSE hits[1]

\* the locals of /download after lines 361-384: a fresh id, the output path
\* and what the metadata gives
extracted(l, id) ==
    LET info == extract_info(l.url)
        sel == SelectedFormat(info.formats, l.format_id)
    IN  [op |-> "download", url |-> l.url, format_id |-> l.format_id,
         platform |-> l.platform,
         download_id |-> id,
         output_path |-> temp_dir \o "/" \o id,
         video_id |-> info.id, title |-> info.title,
         selected_format |-> sel,
         filesize |-> IF sel = NoFormat THEN None ELSE sel.filesize,
         ext |-> IF sel = NoFormat THEN "mp4" ELSE sel.ext]

\* /download, line 368 raising: the except of lines 465-467
download_extract_fail(t) ==
    /\ pc[t] = "extract"
    /\ Respond(t, [code |-> 500, error |-> "extract_info"])
    /\ UNCHANGED <<cls, res, fil, downloads, files, history, next_row_id, loc>>

\* the value of ext at line 428
final_ext(l) ==
    IF l.format_id = "bestaudio" THEN "mp3"
    ELSE IF l.format_id = BestSelector THEN "mp4"
    ELSE l.ext

\* lines 386-426: ydl_opts
ydl_opts(l) ==
    LET common == [outtmpl |-> l.output_path \o ".%(ext)s", postprocessors |-> "",
                   format |-> "", merge_output_format |-> ""]
        o == IF l.format_id = "bestaudio"
               THEN [common EXCEPT !.format = "bestaudio/best",
                                   !.postprocessors = "FFmpegExtractAudio:mp3"]
             ELSE IF l.format_id = BestSelector
               THEN [common EXCEPT !.format = BestSelector, !.merge_output_format = "mp4"]
             ELSE [common EXCEPT !.format = l.format_id, !.merge_output_format = l.ext]
    IN  IF /\ final_ext(l) # "mp3"
           /\ l.selected_format # NoFormat
           /\ l.selected_format.acodec = "none"
        THEN [o EXCEPT !.format = l.format_id \o CompositeSuffix,
                       !.merge_output_format = "mp4"]
        ELSE o

\* job_entry with the entry stored as already completed
job_entry_Completed(l) ==
    [url |-> l.url,
     format_id |-> l.format_id,
     output_file |-> l.output_path \o "." \o final_ext(l),
     ext |-> final_ext(l),
     status |-> "completed"]

\* the entry of lines 429-435
job_entry(l) ==
    [url |-> l.url,
     format_id |-> l.format_id,
     output_file |-> l.output_path \o "." \o final_ext(l),
     ext |-> final_ext(l),
     status |-> "downloading"]

\* /download, lines 361-435: a fresh id, the metadata, the options, and the
\* entry is stored (everything before the store is local to the handler)
download_store(t) ==
    /\ pc[t] = "extract"
    /\ \E id \in uuid4 :
          /\ loc' = [loc EXCEPT ![t] = extracted(loc[t], id)]
          /\ downloads' = [k \in DOMAIN downloads \cup {id} |->
                              IF k = id THEN job_entry(extracted(loc[t], id))
                              ELSE downloads[k]]
    /\ pc' = [pc EXCEPT ![t] = "download"]
    /\ UNCHANGED <<cls, res, fil, files, history, next_row_id, resp>>

\* /download, lines 437-439: ydl.download returns, the file is written
download_run(t) ==
    /\ pc[t] = "download"
    /\ LET e == written_ext(ydl_opts(loc[t]), extract_info(loc[t].url).formats)
       IN  /\ e # "error"
           /\ files' = files \cup {outtmpl_path(ydl_opts(loc[t]).outtmpl, e)}
    /\ pc' = [pc EXCEPT ![t] = "mark"]
    /\ UNCHANGED <<cls, res, fil, downloads, history, next_row_id, loc, resp>>

\* download_run_fail with the except handler finalizing the entry
download_run_fail_Finalizes(t) ==
    /\ pc[t] = "download"
    /\ Respond(t, [code |-> 500, error |-> "download"])
    /\ downloads' = [downloads EXCEPT ![loc[t].download_id].status = "failed"]
    /\ UNCHANGED <<cls, res, fil, files, history, next_row_id, loc>>

\* /download, line 439 raising: the except of lines 465-467
download_run_fail(t) ==
    /\ pc[t] = "download"
    /\ Respond(t, [code |-> 500, error |-> "download"])
    /\ UNCHANGED <<cls, res, fil, downloads, files, history, next_row_id, loc>>

\* /download, line 442
download_mark(t) ==
    /\ pc[t] = "mark"
    /\ downloads' = [downloads EXCEPT ![loc[t].download_id].status = "completed"]
    /\ pc' = [pc EXCEPT ![t] = "persist"]
    /\ UNCHANGED <<cls, res, fil, files, history, next_row_id, loc, resp>>

\* lines 445-456: the Download row of this job
download_record(l) ==
    [video_id |-> l.video_id,
     title |-> l.title,
     format |-> l.format_id \o " (" \o final_ext(l) \o ")",
     platform |-> l.platform,
     filesize |-> IF downloads[l.download_id].output_file \in files
                  THEN "getsize" ELSE l.filesize]

\* committed_rows with the record added twice
committed_rows_Twice(t) ==
    {[id |-> next_row_id, row |-> download_record(loc[t])],
     [id |-> next_row_id + 1, row |-> download_record(loc[t])]}

\* the rows db.session.add and commit insert for one job
committed_rows(t) == {[id |-> next_row_id, row |-> download_record(loc[t])]}

\* /download, lines 444-464: the history row is committed, the reply is sent
download_persist(t) ==
    /\ pc[t] = "persist"
    /\ history' = history \cup committed_rows(t)
    /\ next_row_id' = next_row_id + Cardinality(committed_rows(t))
    /\ Respond(t, [code |-> 200, download_id |-> loc[t].download_id])
    /\ UNCHANGED <<cls, res, fil, downloads, files, loc>>

\* /download, line 458 raising: the except of lines 465-467
download_persist_fail(t) ==
    /\ pc[t] = "persist"
    /\ Respond(t, [code |-> 500, error |-> "commit"])
    /\ UNCHANGED <<cls, res, fil, downloads, files, history, next_row_id, loc>>

\* /get_file, lines 471-477
get_file_lookup(t, download_id) ==
    /\ pc[t] = "idle"
    /\ loc' = [loc EXCEPT ![t] = [op |-> "get_file", download_id |-> download_id]]
    /\ IF download_id \notin DOMAIN downloads
       THEN Respond(t, [code |-> 404])
       ELSE IF downloads[download_id].status # "completed"
       THEN Respond(t, [code |-> 400, error |-> "Download not completed yet"])
       ELSE pc' = [pc EXCEPT ![t] = "serve"] /\ UNCHANGED resp
    /\ UNCHANGED <<cls, res, fil, downloads, files, history, next_row_id>>

\* /get_file, lines 479-498: the name is built and the file is sent; a file
\* that is not there makes send_file raise, which line 501 turns into 500
get_file_serve(t) ==
    /\ pc[t] = "serve"
    /\ LET download_info == downloads[loc[t].download_id]
           platform == RequestPlatform[download_info.url]
           title == clean_title(extract_info(download_info.url).title)
       IN  IF download_info.output_file \in files
           THEN Respond(t, [code |-> 200,
                            file |-> download_info.output_file,
                            download_name |-> download_name(platform, title,
                                                            download_info.ext),
                            mimetype |-> mimetype(download_info.ext)])
           ELSE Respond(t, [code |-> 500, error |-> "send_file"])
    /\ UNCHANGED <<cls, res, fil, downloads, files, history, next_row_id, loc>>

\* /get_file, line 485 raising: line 501
get_file_serve_fail(t) ==
    /\ pc[t] = "serve"
    /\ Respond(t, [code |-> 500, error |-> "extract_info"])
    /\ UNCHANGED <<cls, res, fil, downloads, files, history, next_row_id, loc>>

\* DELETE /api/downloads/<id>, lines 239-250, for a row that exists
delete_download(row_id) ==
    /\ \E r \in history : r.id = row_id
    /\ history' = {r \in history : r.id # row_id}
    /\ UNCHANGED <<cls, res, fil, downloads, files, next_row_id, pc, loc, resp>>

\* the response is sent and the thread is free again
return(t) ==
    /\ pc[t] = "respond"
    /\ pc' = [pc EXCEPT ![t] = "idle"]
    /\ loc' = [loc EXCEPT ![t] = NoLoc]
    /\ resp' = [resp EXCEPT ![t] = NoResp]
    /\ UNCHANGED <<cls, res, fil, downloads, files, history, next_row_id>>

Init == cls = ClsIdle /\ res = ResIdle /\ fil = FilIdle /\ JobInit

Next ==
    \E t \in Workers :
        \/ \E r \in Requests : download_validate(t, r[1], r[2])
        \/ download_extract_fail(t)
        \/ download_store(t)
        \/ download_run(t)
        \/ download_run_fail(t)
        \/ download_mark(t)
        \/ download_persist(t)
        \/ download_persist_fail(t)
        \/ \E id \in JobIds : get_file_lookup(t, id)
        \/ get_file_serve(t)
        \/ get_file_serve_fail(t)
        \/ return(t)

Spec == Init /\ [][Next]_vars

\* the job manager together with the deletion of history rows
NextHistory == Next \/ \E row_id \in 1..MaxJobs : delete_download(row_id)

SpecHistory == Init /\ [][NextHistory]_vars

InitUrl ==
    /\ cls \in {[url |-> u, valid |-> "?", platform |-> "?"] : u \in Urls}
    /\ res = ResIdle /\ fil = FilIdle /\ JobInit

NextUrl == CallValidate \/ CallClassify

SpecUrl == InitUrl /\ [][NextUrl]_vars

InitInfo ==
    /\ res \in {[ResIdle EXCEPT !.raw = l] : l \in FormatLists(MaxFormats)}
    /\ cls = ClsIdle /\ fil = FilIdle /\ JobInit

NextInfo == get_info

SpecInfo == InitInfo /\ [][NextInfo]_vars

(***************************************************************************)
(* Claims about the format menu (checked under SpecInfo).                  *)
(***************************************************************************)
Buckets == {target_resolutions[k] : k \in 1..Len(target_resolutions)}

\* the height the provider reported for the format with this id, -1 if none
RawHeight(id) ==
    LET f == CHOOSE g \in {res.raw[k] : k \in 1..Len(res.raw)} : g.format_id = id
    IN  IF f.height.k = "int" THEN f.height.v ELSE -1

\* the first index of av, not in claimed, whose height is within lo < h <= hi; 0 if none
FirstFit(av, lo, hi, claimed) ==
    LET fits == {i \in 1..Len(av) : /\ i \notin claimed
                                    /\ RawHeight(av[i].format_id) > lo
                                    /\ RawHeight(av[i].format_id) <= hi}
    IN  IF fits = {} THEN 0 ELSE CHOOSE i \in fits : \A j \in fits : i <= j

\* the assignment as the claim states it: buckets ascending, each taking the
\* first format of av with height <= bucket not claimed by a smaller bucket
RECURSIVE ClaimedAssign(_, _, _)
ClaimedAssign(av, k, claimed) ==
    IF k > Len(target_resolutions) THEN <<>>
    ELSE LET i == FirstFit(av, -1, target_resolutions[k], claimed)
         IN  <<IF i = 0 THEN NoFormat ELSE av[i]>>
             \o ClaimedAssign(av, k + 1, IF i = 0 THEN claimed ELSE claimed \cup {i})

Labelled(f, b) == [f EXCEPT !.format_note = ToString(b) \o "p"]

InMenu(f) == \E i \in 1..Len(res.formats) : res.formats[i] = f

\* C6 as stated: every bucket holds the first format of AV, in provider order,
\* whose height is <= the bucket and that no smaller bucket claimed, and the
\* menu shows it relabelled "{bucket}p".
C6_FirstUnclaimedFit ==
    res.done =>
        \A k \in 1..Len(target_resolutions) :
            LET b == target_resolutions[k]
                f == ClaimedAssign(res.av, 1, {})[k]
            IN  /\ res.rf[b] = f
                /\ f # NoFormat => InMenu(Labelled(f, b))

\* C6 amended: every bucket holds the first format of AV, in provider order,
\* whose height is <= the bucket and above the next smaller bucket (the
\* bucket is the smallest one that fits the format); a format whose own
\* bucket is taken is dropped, not moved to a larger bucket.  The menu shows
\* the bucket's format relabelled "{bucket}p".
C6_FirstInOwnBucket ==
    res.done =>
        \A k \in 1..Len(target_resolutions) :
            LET b == target_resolutions[k]
                lo == IF k = 1 THEN -1 ELSE target_resolutions[k - 1]
                i == FirstFit(res.av, lo, b, {})
            IN  /\ res.rf[b] = IF i = 0 THEN NoFormat ELSE res.av[i]
                /\ i # 0 => InMenu(Labelled(res.av[i], b))

\* C6 witness: two AV formats fall into the same bucket and the later one is
\* left out of the menu.
C6_Witness ==
    /\ res.done
    /\ \E i, j \in 1..Len(res.av) :
          /\ i < j
          /\ RawHeight(res.av[i].format_id) >= 0
          /\ \E b \in Buckets : res.rf[b] = res.av[i] /\ RawHeight(res.av[j].format_id) <= b
          /\ RawHeight(res.av[j].format_id) >= 0
          /\ \A b \in Buckets : res.rf[b] # res.av[j]

\* the bucket a menu entry's label names, 0 if it names none
BucketOfNote(note) ==
    IF \E b \in Buckets : ToString(b) \o "p" = note
    THEN CHOOSE b \in Buckets : ToString(b) \o "p" = note
    ELSE 0

\* C7: the menu is the assigned buckets in strictly ascending order, each
\* bucket and each provider format at most once, or, exactly when no bucket
\* is assigned, the single "Best quality" entry; then exactly one audio-only
\* entry, last.  It is never empty, and is [fallback, audio-only] when no
\* format is AV-eligible.
C7_MenuShape ==
    res.done =>
        LET m == res.formats
            n == Len(m)
            none == \A b \in Buckets : res.rf[b] = NoFormat
        IN  /\ n >= 2
            /\ m[n] = AudioOnly
            /\ \A i \in 1..(n - 1) : m[i] # AudioOnly
            /\ none <=> (n = 2 /\ m[1] = BestQuality)
            /\ ~none =>
                 /\ \A i \in 1..(n - 1) :
                       /\ BucketOfNote(m[i].format_note) # 0
                       /\ res.rf[BucketOfNote(m[i].format_note)]
                            = [m[i] EXCEPT !.format_note =
                                 res.rf[BucketOfNote(m[i].format_note)].format_note]
                       /\ \E k \in 1..Len(res.raw) : res.raw[k].format_id = m[i].format_id
                 /\ \A i, j \in 1..(n - 1) :
                       i < j => /\ BucketOfNote(m[i].format_note) < BucketOfNote(m[j].format_note)
                                /\ m[i].format_id # m[j].format_id
                 /\ \A b \in Buckets :
                       res.rf[b] # NoFormat =>
                           \E i \in 1..(n - 1) : BucketOfNote(m[i].format_note) = b
            /\ res.av = <<>> => m = <<BestQuality, AudioOnly>>

\* C7 witness: a menu with two bucket entries and the audio-only entry.
C7_Witness == res.done /\ Len(res.formats) >= 3

(***************************************************************************)
(* Claims about the classifier (checked under SpecUrl).                    *)
(***************************************************************************)
\* the platforms (indexes of validate_url's table) whose allow-list holds h
PlatformsOf(h) == {k \in 1..Len(patterns) : \E d \in 1..Len(patterns[k].domains) :
                                               patterns[k].domains[d] = h}

\* C8: validate(url) is true iff the lower-cased hostname is in some
\* platform's allow-list and one of that platform's patterns matches;
\* classify(url) is the tag of the platform whose allow-list holds the
\* hostname, unknown otherwise.  So validate implies a known platform, a
\* hostname in no allow-list is invalid and unknown, and an allow-listed
\* hostname with no matching pattern is invalid but still classified.
C8_ValidateClassify ==
    LET h == Lower(Netloc(cls.url))
        matching == {k \in PlatformsOf(h) :
                        \E q \in 1..Len(patterns[k].patterns) :
                            re_search(patterns[k].patterns[q], cls.url)}
    IN  /\ cls.valid # "?" => (cls.valid = "yes") = (matching # {})
        /\ cls.platform # "?" =>
              /\ PlatformsOf(h) = {} => cls.platform = "unknown"
              /\ \A k \in PlatformsOf(h) : cls.platform = patterns[k].platform
        /\ (cls.valid # "?" /\ cls.platform # "?") =>
              /\ cls.valid = "yes" => cls.platform # "unknown"
              /\ PlatformsOf(h) = {} => cls.valid = "no" /\ cls.platform = "unknown"
              /\ (PlatformsOf(h) # {} /\ matching = {}) =>
                     cls.valid = "no" /\ cls.platform # "unknown"

\* C8 witness: an allow-listed hostname in a URL none of its platform's
\* patterns match: rejected by validate_url, classified by get_platform.
C8_Witness ==
    /\ cls.valid = "no"
    /\ cls.platform \notin {"?", "unknown"}
    /\ Lower(Netloc(cls.url)) # Netloc(cls.url)

InitFile ==
    /\ fil \in {[FilIdle EXCEPT !.title = t, !.url = u, !.ext = e] :
                   t \in Titles,
                   u \in {"https://youtu.be/abc", "https://x.com/u/status/12"},
                   e \in {"mp4", "mp3"}}
    /\ cls = ClsIdle /\ res = ResIdle /\ JobInit

NextFile == serve_name

SpecFile == InitFile /\ [][NextFile]_vars

(***************************************************************************)
(* Claims about the download name (checked under SpecFile).                *)
(***************************************************************************)
\* the title as the claim cleans it: characters outside word characters,
\* whitespace and hyphen removed, trimmed, each run of whitespace one "_"
RECURSIVE ClaimedRuns(_)
ClaimedRuns(s) ==
    IF s = "" THEN ""
    ELSE IF Ch(s, 1) \in SpaceChars
         THEN "_" \o ClaimedRuns(LStrip(s))
         ELSE Ch(s, 1) \o ClaimedRuns(Tail(s))

KeptOf(title) ==
    LET idx == {i \in 1..Len(title) : Ch(title, i) \in WordChars \cup SpaceChars \cup {"-"}}
        first == {i \in idx : Ch(title, i) \notin SpaceChars}
    IN  {i \in idx : \E a, b \in first : a <= i /\ i <= b}

\* the characters of s at the indexes of set I, in order
RECURSIVE Pick(_, _, _)
Pick(s, I, k) ==
    IF k > Len(s) THEN ""
    ELSE (IF k \in I THEN Ch(s, k) ELSE "") \o Pick(s, I, k + 1)

\* C9 as stated: the name is '{platform}_{sanitized_title}.{container}' with
\* each internal run of whitespace of the title replaced by one underscore.
C9_RunsToOneUnderscore ==
    fil.done =>
        fil.download_name =
            get_platform(fil.url) \o "_"
              \o ClaimedRuns(Pick(fil.title, KeptOf(fil.title), 1)) \o "." \o fil.ext

\* C9 amended: the name is '{platform}_{sanitized_title}.{container}' where
\* sanitized_title is the title with every character outside word
\* characters, whitespace and hyphen removed, then trimmed, then each space
\* character replaced by an underscore: a run of n spaces gives n
\* underscores, and other whitespace inside the title (a tab) is kept.
C9_SpacesToUnderscores ==
    fil.done =>
        LET kept == Pick(fil.title, KeptOf(fil.title), 1)
            name == fil.download_name
            pre == Len(get_platform(fil.url)) + 1
        IN  /\ Len(name) = pre + Len(kept) + 1 + Len(fil.ext)
            /\ SubSeq(name, 1, pre) = get_platform(fil.url) \o "_"
            /\ \A i \in 1..Len(kept) :
                  Ch(name, pre + i) = IF Ch(kept, i) = " " THEN "_" ELSE Ch(kept, i)
            /\ SubSeq(name, pre + Len(kept) + 1, Len(name)) = "." \o fil.ext
            /\ (fil.title = "Cat's Video: Part #1!" /\ fil.ext = "mp4"
                  /\ fil.url = "https://youtu.be/abc")
                 => name = "youtube_Cats_Video_Part_1.mp4"

\* C9 witness: a title with two adjacent spaces inside it is served with two
\* underscores.
C9_Witness ==
    /\ fil.done
    /\ "_" \notin Chars(fil.title)
    /\ \E i \in 1..Len(fil.download_name) : StartsWithAt(fil.download_name, i, "a__a")

(***************************************************************************)
(* Claims about the job manager (checked under Spec).                      *)
(***************************************************************************)
Completed == {id \in DOMAIN downloads : downloads[id].status = "completed"}

\* the handler threads that own job id: a /download past its store
Owners(id) == {t \in Workers : loc[t].op = "download" /\ loc[t].download_id = id}

\* the container C1 states for a job entry
ClaimedExt(e) ==
    LET sel == SelectedFormat(extract_info(e.url).formats, e.format_id)
    IN  IF e.format_id = "bestaudio" THEN "mp3"
        ELSE IF e.format_id = BestSelector THEN "mp4"
        ELSE IF sel # NoFormat /\ sel.acodec = "none" THEN "mp4"
        ELSE IF sel # NoFormat THEN sel.ext
        ELSE e.ext

\* C1 as stated: the ext and output file recorded in a job entry are the path
\* the provider download wrote: mp3 for bestaudio, mp4 for the best-quality
\* sentinel, mp4 for a provider format without audio, else the format's own
\* container.
C1_RecordedPathIsWritten ==
    \A id \in Completed :
        /\ downloads[id].ext = ClaimedExt(downloads[id])
        /\ downloads[id].output_file = temp_dir \o "/" \o id \o "." \o downloads[id].ext
        /\ downloads[id].output_file \in files

\* C2 as stated: get_file answers 404 for an id not in the table, 400 for a
\* job that is not completed, and for a completed job, the provider being
\* reachable, the file that job produced.
C2_GetFileOutcome ==
    [][\A t \in Workers :
          /\ (pc[t] = "idle" /\ loc'[t].op = "get_file") =>
                LET id == loc'[t].download_id
                IN  /\ id \notin DOMAIN downloads => pc'[t] = "respond" /\ resp'[t].code = 404
                    /\ (id \in DOMAIN downloads /\ downloads[id].status # "completed")
                          => pc'[t] = "respond" /\ resp'[t].code = 400
                    /\ id \in Completed => pc'[t] = "serve"
          /\ (pc[t] = "serve" /\ pc'[t] = "respond" /\ resp'[t].code # 200) =>
                resp'[t].error = "extract_info"
          /\ (pc[t] = "serve" /\ pc'[t] = "respond" /\ resp'[t].code = 200) =>
                /\ resp'[t].file \in files
                /\ resp'[t].file = downloads[loc[t].download_id].output_file
      ]_vars

\* the submitted URLs that pass validate_url
ValidRequestUrls == {u \in RequestUrls : validate_url(u)}

\* the request of a /download handler is one the code must reject
BadRequest(l) == l.url = "" \/ l.format_id = "" \/ l.url \notin ValidRequestUrls

\* C3: a /download whose url is missing or fails validate_url, or whose
\* format is missing, is answered 400 before any job is created: the job
\* table and the history are unchanged by it, and no entry ever holds such
\* a request.
C3_RejectedBeforeJob ==
    /\ [](\A id \in DOMAIN downloads : ~BadRequest(downloads[id]))
    /\ [][\A t \in Workers :
            (pc[t] = "idle" /\ loc'[t].op = "download" /\ BadRequest(loc'[t])) =>
                /\ pc'[t] = "respond"
                /\ resp'[t].code = 400
                /\ downloads' = downloads
                /\ history' = history /\ next_row_id' = next_row_id
         ]_vars

\* C3 witness: a submission with an allow-listed host and no matching path
\* has been answered 400 while the table holds a job.
C3_Witness ==
    \E t \in Workers :
        /\ pc[t] = "respond" /\ loc[t].op = "download"
        /\ loc[t].url = "https://youtu.be/" /\ resp[t].code = 400
        /\ DOMAIN downloads # {}

\* C4: any two submissions, also concurrent ones with the same url and
\* format, get distinct job ids, distinct entries and distinct output paths;
\* a handler writes no entry but its own, in every interleaving.
C4_IndependentJobs ==
    /\ [](/\ \A t1, t2 \in Workers :
               (t1 # t2 /\ loc[t1].op = "download" /\ loc[t2].op = "download"
                  /\ loc[t1].download_id # "") => loc[t1].download_id # loc[t2].download_id
          /\ \A t \in Workers :
               (loc[t].op = "download" /\ loc[t].download_id # "") =>
                   /\ loc[t].download_id \in DOMAIN downloads
                   /\ downloads[loc[t].download_id].url = loc[t].url
                   /\ downloads[loc[t].download_id].format_id = loc[t].format_id
          /\ \A i, j \in DOMAIN downloads :
               i # j => downloads[i].output_file # downloads[j].output_file)
    /\ [][/\ \A id \in DOMAIN downloads :
               /\ id \in DOMAIN downloads'
               /\ downloads'[id] # downloads[id] =>
                     \E t \in Owners(id) : pc'[t] # pc[t]
          /\ \A id \in DOMAIN downloads' \ DOMAIN downloads :
               \E t \in Workers : /\ pc[t] = "extract" /\ pc'[t] = "download"
                                  /\ loc'[t].download_id = id
                                  /\ DOMAIN downloads' = DOMAIN downloads \cup {id}
         ]_vars

\* C4 witness: two handlers are downloading at once for the same url and
\* format, each with its own id and entry.
C4_Witness ==
    \E t1, t2 \in Workers :
        /\ t1 # t2 /\ pc[t1] = "download" /\ pc[t2] = "download"
        /\ loc[t1].url = loc[t2].url /\ loc[t1].format_id = loc[t2].format_id
        /\ loc[t1].download_id # loc[t2].download_id

\* an entry still downloading that no running handler owns: its download failed
Orphan(id) ==
    /\ id \in DOMAIN downloads
    /\ downloads[id].status = "downloading"
    /\ \A t \in Owners(id) : pc[t] = "respond"

\* C10: a job's status changes only from downloading to completed, and once;
\* a job whose provider download failed stays in the table as downloading,
\* is never retried and never completes, and a resubmission gets a new id.
C10_FailedIsTerminal ==
    [][/\ \A id \in DOMAIN downloads :
            /\ id \in DOMAIN downloads'
            /\ downloads'[id] # downloads[id] =>
                  /\ downloads[id].status = "downloading"
                  /\ downloads'[id] = [downloads[id] EXCEPT !.status = "completed"]
            /\ Orphan(id) => downloads'[id] = downloads[id] /\ Orphan(id)'
       /\ \A t \in Workers :
            /\ (pc[t] = "download" /\ pc'[t] = "respond") =>
                  /\ downloads' = downloads
                  /\ Orphan(loc[t].download_id)'
            /\ (pc[t] = "extract" /\ pc'[t] = "download") =>
                  loc'[t].download_id \notin DOMAIN downloads
      ]_vars

\* C10 witness: a failed job is left downloading with no handler, and a
\* resubmission of its url and format has completed under another id.
C10_Witness ==
    \E i, j \in DOMAIN downloads :
        /\ i # j /\ Orphan(i) /\ Owners(i) = {}
        /\ downloads[j].url = downloads[i].url
        /\ downloads[j].format_id = downloads[i].format_id
        /\ downloads[j].status = "completed"

(***************************************************************************)
(* Claims about the history (checked under SpecHistory).                   *)
(***************************************************************************)
\* C5 as stated: at all times the number of history records ever created
\* equals the number of jobs with status completed.
C5_RecordsEqualCompleted == next_row_id - 1 = Cardinality(Completed)

\* C5 amended: a history record is created only by the handler of a job
\* already marked completed, one record per commit, as that handler's last
\* step before its 200 reply, and none by a submission that fails at any
\* step; so the number of records ever created never exceeds the number of
\* completed jobs.  It is smaller while a completed job's record is not yet
\* committed, and stays smaller when the commit fails, since the job is
\* marked completed before the record is saved.
C5_RecordsOnlyForCompleted ==
    /\ [](/\ next_row_id - 1 <= Cardinality(Completed)
          /\ \A r \in history : r.id < next_row_id)
    /\ [][/\ next_row_id' # next_row_id =>
               /\ next_row_id' = next_row_id + 1
               /\ \E t \in Workers :
                     /\ pc[t] = "persist" /\ pc'[t] = "respond" /\ resp'[t].code = 200
                     /\ loc[t].download_id \in Completed
                     /\ history' = history \cup
                                     {[id |-> next_row_id, row |-> download_record(loc[t])]}
          /\ \A t \in Workers :
               (loc[t].op = "download" /\ pc'[t] = "respond" /\ pc[t] # "respond"
                  /\ resp'[t].code # 200) =>
                   history' = history /\ next_row_id' = next_row_id
         ]_vars

\* C5 witness: a job is completed, its handler has returned after a failed
\* commit, and no record was ever created.
C5_Witness ==
    /\ Completed # {}
    /\ \A t \in Workers : pc[t] = "idle"
    /\ next_row_id = 1

(***************************************************************************)
(* Claims about concurrent /download and /get_file handlers (under Spec).  *)
(***************************************************************************)
\* the handlers whose provider download of job id is running
Running(id) == {t \in Owners(id) : pc[t] = "download"}

\* the file the provider download of handler t writes when it succeeds
WrittenBy(t) ==
    outtmpl_path(ydl_opts(loc[t]).outtmpl,
                 written_ext(ydl_opts(loc[t]), extract_info(loc[t].url).formats))

\* C11: in every interleaving of /download and /get_file handlers, a job
\* entry is inserted with status downloading before its provider download
\* starts, and is marked completed only after that download call returned
\* successfully; so get_file answers 400 and never serves a file for a job
\* whose download is still running or has failed; and a failure of the
\* metadata re-fetch, which is before the insertion, leaves the job table
\* unchanged.
C11_ServedOnlyAfterDownload ==
    /\ [](\A t \in Workers :
            /\ (loc[t].op = "download" /\ pc[t] = "download") =>
                  /\ loc[t].download_id \in DOMAIN downloads
                  /\ downloads[loc[t].download_id].status = "downloading"
            /\ (loc[t].op = "download" /\ pc[t] = "mark") =>
                  /\ WrittenBy(t) \in files
                  /\ downloads[loc[t].download_id].status = "downloading"
            /\ (loc[t].op = "download" /\ pc[t] = "extract") =>
                  loc[t].download_id \notin DOMAIN downloads
            /\ (loc[t].op = "get_file" /\ pc[t] = "serve") =>
                  /\ loc[t].download_id \in Completed
                  /\ Running(loc[t].download_id) = {}
                  /\ ~Orphan(loc[t].download_id))
    /\ [][/\ \A id \in JobIds :
              /\ (id \notin DOMAIN downloads /\ id \in DOMAIN downloads') =>
                    /\ downloads'[id].status = "downloading"
                    /\ \E t \in Workers :
                          /\ pc[t] = "extract" /\ pc'[t] = "download"
                          /\ loc'[t].download_id = id
              /\ (id \notin Completed /\ id \in Completed') =>
                    \E t \in Workers :
                        /\ pc[t] = "mark" /\ loc[t].download_id = id
                        /\ WrittenBy(t) \in files
          /\ \A t \in Workers :
              /\ (pc[t] = "idle" /\ loc'[t].op = "get_file"
                    /\ (Running(loc'[t].download_id) # {}
                          \/ Orphan(loc'[t].download_id))) =>
                    pc'[t] = "respond" /\ resp'[t].code = 400
              /\ (loc'[t].op = "get_file" /\ pc'[t] = "respond"
                    /\ pc[t] # "respond" /\ resp'[t].code = 200) =>
                    /\ loc[t].download_id \in Completed
                    /\ Running(loc[t].download_id) = {}
                    /\ ~Orphan(loc[t].download_id)
              /\ (pc[t] = "extract" /\ pc'[t] = "respond") =>
                    /\ downloads' = downloads
                    /\ loc[t].download_id \notin DOMAIN downloads
         ]_vars

\* C11 witness: while one handler's provider download of a job is running,
\* another handler's get_file for that job has been answered 400, and an
\* earlier job whose download failed is still in the table as downloading.
C11_Witness ==
    \E t1, t2 \in Workers :
        /\ t1 # t2
        /\ loc[t1].op = "download" /\ pc[t1] = "download"
        /\ loc[t2].op = "get_file" /\ pc[t2] = "respond"
        /\ loc[t2].download_id = loc[t1].download_id
        /\ resp[t2].code = 400
        /\ \E id \in DOMAIN downloads : Orphan(id) /\ Owners(id) = {}

=============================================================================
